---- MODULE Spec2Model ----
(***************************************************************************)
(* Model of the sverige-radio-transcription repository:                    *)
(*   - rss_parser/main.py: the discovery run (main / rss_parser_entry):    *)
(*     parse the feed, load the ledger blob feeds.json, diff, dispatch a   *)
(*     Cloud Task per new episode, upload the ledger;                      *)
(*   - rss_parser/episode_processor/core.py: EpisodeProcessor.process:     *)
(*     download -> transcribe -> store, with a scoped temporary directory. *)
(***************************************************************************)
EXTENDS Integers, Sequences, FiniteSets, Bags, TLC

VARIABLES
    \* ---- discovery run (rss_parser/main.py) ----
    source,          \* what the feed url serves in this behaviour: "plain", "noaudio" or "noguid" entries
    blob,            \* the GCS object feeds.json: [exists |-> FALSE] or [exists |-> TRUE, data |-> list of feed dicts]
    pc,              \* position of main(): "idle", "load", "dispatch", "upload", "done", "raised"
    raisedAt,        \* the call of main() that raised: "", "parse", "load", "upload"
    feeds,           \* main: feeds (list of Feed)
    existing_feeds,  \* main: existing_feeds (list of dict)
    new_episodes,    \* main: new_episodes
    idx,             \* main: position of the for loop over new_episodes (1-based)
    attempts,        \* calls of dispatch_to_cloud_tasks made by this run, with their outcome
    errors,          \* titles of the "Error dispatching task for ..." lines this run printed
    tasks,           \* Cloud Tasks queue: bag of the guids of the tasks ever created
    response,        \* rss_parser_entry: 0 = no response yet, 200, 500 (uncaught exception)
    runs,            \* number of runs started
    blobAtStart,     \* history: blob when the current run started
    saveFailed,      \* history: some run's upload_to_gcs has raised
    prev,            \* history: [retry, new]: this run parsed the same feeds as the previous run, whose
                     \* upload raised, and new is that run's new_episodes
    \* ---- the diff step on its own (identify_new_episodes as a function) ----
    diffPc,          \* "off", "input" (arguments chosen), "done" (result computed)
    diffFeeds,       \* argument feeds
    diffExisting,    \* argument existing_feeds
    diffOut,         \* the returned list
    \* ---- EpisodeProcessor.process (episode_processor/core.py), one invocation at a time per worker ----
    backend,         \* the Storage the processor was built with: "local" or "gcs"
    ppc,             \* per worker: "idle", "download", "transcribe", "release", "store", "returned", "raised"
    episode,         \* per worker: the argument of process, <<>> when idle
    tmpdir,          \* per worker: the name TemporaryDirectory() returned
    result,          \* per worker: <<>> or <<the TranscriptionResult>>
    failed,          \* per worker: the stage whose call raised: "", "download", "transcribe", "store"
    ret,             \* per worker: <<>> or <<the returned location>>
    calls,           \* per worker: the stage calls this invocation made, with arguments and results
    wrote,           \* per worker: this invocation has written to the destination
    tmpfs,           \* the temporary directories: name -> [exists, owner, file]
    store,           \* the destination: location -> [complete, data]
    returns,         \* history: [guid, location, stored] of every successful process call; stored is
                     \* episode.guid of the payload at the location when the call returned
    ncalls,          \* number of process invocations started
    \* ---- HTTP endpoint (episode_processor/main.py) ----
    httpReq,         \* per worker: <<>> or <<the parsed body of the request it handles or handled last>>
    httpResp         \* per worker: <<>> while the request is handled, else <<[status, body]>>

runVars == <<source, blob, pc, raisedAt, feeds, existing_feeds, new_episodes, idx, attempts, errors,
             tasks, response, runs, blobAtStart, saveFailed, prev>>

diffVars == <<diffPc, diffFeeds, diffExisting, diffOut>>

procVars == <<backend, ppc, episode, tmpdir, result, failed, ret, calls, wrote, tmpfs, store,
              returns, ncalls>>

httpVars == <<httpReq, httpResp>>

vars == <<runVars, diffVars, procVars, httpVars>>

----------------------------------------------------------------------------
\* Bounds of the model

MaxFeedLen == 2      \* entries in one parsed feed
MaxRuns == 2         \* discovery runs in one behaviour
MaxDiffFeeds == 1    \* feeds in one call of identify_new_episodes (RSS_FEEDS holds one url)
MaxDiffLen == 3      \* entries of one feed in a call of identify_new_episodes
NumProcs == 2        \* workers calling EpisodeProcessor.process concurrently
MaxCalls == 2        \* process invocations in one behaviour
MaxHttpWorkers == 1  \* requests the endpoint handles at a time

----------------------------------------------------------------------------
\* Helpers

Range(s) == { s[i] : i \in DOMAIN s }

\* sequences over S of length at most n
SeqsUpTo(S, n) == UNION { [1..k -> S] : k \in 0..n }

\* dict.get(key, default)
Get(d, key, default) == IF key \in DOMAIN d THEN d[key] ELSE default

\* concatenation of a sequence of sequences
RECURSIVE Flatten(_)
Flatten(ss) == IF ss = <<>> THEN <<>> ELSE Head(ss) \o Flatten(Tail(ss))

----------------------------------------------------------------------------
\* The feed source: raw entries as feedparser returns them

RSS_FEEDS == <<"https://sr-restored.se/rss/5466">>

RawEntry(g) == [guid |-> g, title |-> "T-" \o g, description |-> "D", published |-> "P",
                enclosures |-> <<[url |-> "http://x/" \o g \o ".mp3"]>>]

\* an entry without enclosure and without link: entry.get("enclosures", [{}]) is the default
RawEntryNoAudio(g) == [guid |-> g, title |-> "T-" \o g, description |-> "D", published |-> "P"]

\* an entry without guid (feedparser sets no id): link and title tell it from the others
RawEntryNoGuid(t) == [title |-> "T-" \o t, link |-> "http://x/" \o t, description |-> "D", published |-> "P",
                      enclosures |-> <<[url |-> "http://x/" \o t \o ".mp3"]>>]

\* an entry whose enclosures list is empty (links, none of them an enclosure)
RawEntryEmptyEnclosures(g) == [guid |-> g, title |-> "T-" \o g, description |-> "D", published |-> "P",
                               enclosures |-> <<>>]

RawEntries(src) ==
    CASE src = "plain"   -> { RawEntry(g) : g \in {"a", "b", "c"} }
      [] src = "noaudio" -> { RawEntry("a"), RawEntryNoAudio("n") }
      [] src = "noguid"  -> { RawEntryNoGuid("x1"), RawEntryNoGuid("x2") }
      [] src = "nolist"  -> { RawEntry("a"), RawEntryEmptyEnclosures("z") }

Sources == {"plain", "noaudio", "noguid", "nolist"}

RawFeeds(src) == { [title |-> "Dick Harrison svarar", entries |-> es] : es \in SeqsUpTo(RawEntries(src), MaxFeedLen) }

\* entry.get("enclosures", [{}])[0] raises IndexError on an empty list
EntryRaises(entry) == Get(entry, "enclosures", <<[x |-> 0]>>) = <<>>

ParseRaises(raw) == \E i \in DOMAIN raw.entries : EntryRaises(raw.entries[i])

PodcastEpisode(entry) ==
    [title       |-> Get(entry, "title", ""),
     description |-> Get(entry, "description", ""),
     guid        |-> Get(entry, "guid", ""),
     pub_date    |-> Get(entry, "published", ""),
     mp3_url     |-> Get(Get(entry, "enclosures", <<[x |-> 0]>>)[1], "url", "")]

parse_rss_feed(raw) ==
    [title |-> Get(raw, "title", ""),
     podcast_episodes |-> [i \in DOMAIN raw.entries |-> PodcastEpisode(raw.entries[i])]]

\* one raw feed per url of RSS_FEEDS
fetch_and_process_feeds(raws) == [k \in DOMAIN RSS_FEEDS |-> parse_rss_feed(raws[k])]

----------------------------------------------------------------------------
\* The ledger

\* dataclasses.asdict of a Feed, through json.dumps / json.loads
asdict(feed) ==
    [title |-> feed.title,
     podcast_episodes |->
        [i \in DOMAIN feed.podcast_episodes |->
            [title       |-> feed.podcast_episodes[i].title,
             description |-> feed.podcast_episodes[i].description,
             guid        |-> feed.podcast_episodes[i].guid,
             pub_date    |-> feed.podcast_episodes[i].pub_date,
             mp3_url     |-> feed.podcast_episodes[i].mp3_url]]]

feeds_data(fs) == [k \in DOMAIN fs |-> asdict(fs[k])]

get_existing_episode_guids(existing) ==
    UNION { IF "podcast_episodes" \in DOMAIN existing[k]
            THEN { existing[k].podcast_episodes[i].guid : i \in DOMAIN existing[k].podcast_episodes }
            ELSE {}
          : k \in DOMAIN existing }

\* identify_new_episodes with new_episodes.insert(0, episode) for append
identify_new_episodes_prepending(fs, existing) ==
    LET existing_guids == get_existing_episode_guids(existing)
        all == Flatten([k \in DOMAIN fs |-> fs[k].podcast_episodes])
        kept == SelectSeq(all, LAMBDA ep : ep.guid \notin existing_guids)
    IN  [i \in 1..Len(kept) |-> kept[Len(kept) + 1 - i]]

identify_new_episodes(fs, existing) ==
    LET existing_guids == get_existing_episode_guids(existing)
        all == Flatten([k \in DOMAIN fs |-> fs[k].podcast_episodes])
    IN  SelectSeq(all, LAMBDA ep : ep.guid \notin existing_guids)

\* guids of every entry of the parsed feeds
FeedGuids(fs) == { e.guid : e \in Range(Flatten([k \in DOMAIN fs |-> fs[k].podcast_episodes])) }

\* the seen set the persisted ledger holds
PersistedSeen == IF blob.exists THEN get_existing_episode_guids(blob.data) ELSE {}

----------------------------------------------------------------------------
\* The discovery run: rss_parser_entry -> main

NoPrev == [retry |-> FALSE, new |-> <<>>]

\* feeds.json as an earlier revision may have left it: a feed record without its episode list
LegacyLedger == [exists |-> TRUE, data |-> <<[title |-> "Dick Harrison svarar"]>>]

InitRunWith(src, b) ==
    /\ source = src
    /\ blob = b
    /\ pc = "idle"
    /\ raisedAt = ""
    /\ feeds = <<>>
    /\ existing_feeds = <<>>
    /\ new_episodes = <<>>
    /\ idx = 1
    /\ attempts = <<>>
    /\ errors = <<>>
    /\ tasks = EmptyBag
    /\ response = 0
    /\ runs = 0
    /\ blobAtStart = b
    /\ saveFailed = FALSE
    /\ prev = NoPrev

InitRun == InitRunWith("plain", [exists |-> FALSE])

Raise(at) ==
    /\ pc' = "raised"
    /\ raisedAt' = at
    /\ response' = 500

\* rss_parser_entry is invoked; main() line 180: feeds = fetch_and_process_feeds()
StartRun ==
    /\ pc \in {"idle", "done", "raised"}
    /\ runs < MaxRuns
    /\ runs' = runs + 1
    /\ blobAtStart' = blob
    /\ existing_feeds' = <<>>
    /\ new_episodes' = <<>>
    /\ idx' = 1
    /\ attempts' = <<>>
    /\ errors' = <<>>
    /\ \E raw \in RawFeeds(source) :
          IF ParseRaises(raw)
          THEN /\ feeds' = <<>>
               /\ Raise("parse")
          ELSE /\ feeds' = fetch_and_process_feeds(<<raw>>)
               /\ pc' = "load"
               /\ raisedAt' = ""
               /\ response' = 0
    /\ prev' = IF pc = "raised" /\ raisedAt = "upload" /\ feeds' = feeds
               THEN [retry |-> TRUE, new |-> new_episodes]
               ELSE NoPrev
    /\ UNCHANGED <<source, blob, tasks, saveFailed, diffVars, procVars, httpVars>>

\* LoadOk that saves the ledger as soon as the diff is computed, before any dispatch
LoadOk_saves_first ==
    /\ pc = "load"
    /\ existing_feeds' = IF blob.exists THEN blob.data ELSE <<>>
    /\ new_episodes' = identify_new_episodes(feeds, existing_feeds')
    /\ blob' = [exists |-> TRUE, data |-> feeds_data(feeds)]
    /\ pc' = "dispatch"
    /\ UNCHANGED <<source, raisedAt, feeds, idx, attempts, errors, tasks, response, runs, blobAtStart, saveFailed, prev, diffVars, procVars, httpVars>>

\* LoadOk that needs a ledger with its episode list: without one the load fails
LoadOk_requires_ledger ==
    /\ pc = "load"
    /\ blob.exists
    /\ \A k \in DOMAIN blob.data : "podcast_episodes" \in DOMAIN blob.data[k]
    /\ existing_feeds' = blob.data
    /\ new_episodes' = identify_new_episodes(feeds, existing_feeds')
    /\ pc' = "dispatch"
    /\ UNCHANGED <<source, blob, raisedAt, feeds, idx, attempts, errors, tasks, response, runs, blobAtStart, saveFailed, prev, diffVars, procVars, httpVars>>

\* main() lines 182-186: fetch_existing_feeds returns and the diff is computed
LoadOk ==
    /\ pc = "load"
    /\ existing_feeds' = IF blob.exists THEN blob.data ELSE <<>>
    /\ new_episodes' = identify_new_episodes(feeds, existing_feeds')
    /\ pc' = "dispatch"
    /\ UNCHANGED <<source, blob, raisedAt, feeds, idx, attempts, errors, tasks, response, runs, blobAtStart, saveFailed, prev, diffVars, procVars, httpVars>>

\* LoadFail with the error swallowed: the run goes on as on a cold start
LoadFail_swallowed ==
    /\ pc = "load"
    /\ raisedAt' = "load"
    /\ existing_feeds' = <<>>
    /\ new_episodes' = identify_new_episodes(feeds, <<>>)
    /\ pc' = "dispatch"
    /\ UNCHANGED <<source, blob, feeds, idx, attempts, errors, tasks, response, runs, blobAtStart, saveFailed, prev, diffVars, procVars, httpVars>>

\* fetch_existing_feeds raises (blob.exists, download_as_text or json.loads)
LoadFail ==
    /\ pc = "load"
    /\ Raise("load")
    /\ UNCHANGED <<source, blob, feeds, existing_feeds, new_episodes, idx, attempts, errors, tasks, runs, blobAtStart, saveFailed, prev, diffVars, procVars, httpVars>>

\* main() lines 194-196: dispatch_to_cloud_tasks creates the task
DispatchOk ==
    /\ pc = "dispatch"
    /\ idx <= Len(new_episodes)
    /\ tasks' = tasks (+) SetToBag({new_episodes[idx].guid})
    /\ attempts' = Append(attempts, [episode |-> new_episodes[idx], ok |-> TRUE])
    /\ idx' = idx + 1
    /\ UNCHANGED <<source, blob, pc, raisedAt, feeds, existing_feeds, new_episodes, errors, response, runs, blobAtStart, saveFailed, prev, diffVars, procVars, httpVars>>

\* DispatchFail without the try/except of lines 195-198: the exception leaves main()
DispatchFail_uncaught ==
    /\ pc = "dispatch"
    /\ idx <= Len(new_episodes)
    /\ attempts' = Append(attempts, [episode |-> new_episodes[idx], ok |-> FALSE])
    /\ Raise("dispatch")
    /\ UNCHANGED <<source, blob, feeds, existing_feeds, new_episodes, idx, errors, tasks, runs, blobAtStart, saveFailed, prev, diffVars, procVars, httpVars>>

\* main() lines 197-198: dispatch_to_cloud_tasks raises, the error is printed
DispatchFail ==
    /\ pc = "dispatch"
    /\ idx <= Len(new_episodes)
    /\ attempts' = Append(attempts, [episode |-> new_episodes[idx], ok |-> FALSE])
    /\ errors' = Append(errors, new_episodes[idx].title)
    /\ idx' = idx + 1
    /\ UNCHANGED <<source, blob, pc, raisedAt, feeds, existing_feeds, new_episodes, tasks, response, runs, blobAtStart, saveFailed, prev, diffVars, procVars, httpVars>>

\* the for loop is over (or new_episodes is empty)
DispatchDone ==
    /\ pc = "dispatch"
    /\ idx > Len(new_episodes)
    /\ pc' = "upload"
    /\ UNCHANGED <<source, blob, raisedAt, feeds, existing_feeds, new_episodes, idx, attempts, errors, tasks, response, runs, blobAtStart, saveFailed, prev, diffVars, procVars, httpVars>>

\* main() lines 201-203 and rss_parser_entry line 210
UploadOk ==
    /\ pc = "upload"
    /\ blob' = [exists |-> TRUE, data |-> feeds_data(feeds)]
    /\ pc' = "done"
    /\ response' = 200
    /\ UNCHANGED <<source, raisedAt, feeds, existing_feeds, new_episodes, idx, attempts, errors, tasks, runs, blobAtStart, saveFailed, prev, diffVars, procVars, httpVars>>

\* UploadFail with a write that is not all-or-nothing: an empty list is left in the object
UploadFail_truncates ==
    /\ pc = "upload"
    /\ Raise("upload")
    /\ blob' = [exists |-> TRUE, data |-> <<>>]
    /\ saveFailed' = TRUE
    /\ UNCHANGED <<source, feeds, existing_feeds, new_episodes, idx, attempts, errors, tasks, runs, blobAtStart, prev, diffVars, procVars, httpVars>>

\* upload_to_gcs raises: blob.upload_from_string is a single-call upload, the object is not replaced
UploadFail ==
    /\ pc = "upload"
    /\ Raise("upload")
    /\ saveFailed' = TRUE
    /\ UNCHANGED <<source, blob, feeds, existing_feeds, new_episodes, idx, attempts, errors, tasks, runs, blobAtStart, prev, diffVars, procVars, httpVars>>

Next ==
    \/ StartRun
    \/ LoadOk
    \/ LoadFail
    \/ DispatchOk
    \/ DispatchFail
    \/ DispatchDone
    \/ UploadOk
    \/ UploadFail

DiffOff ==
    /\ diffPc = "off"
    /\ diffFeeds = <<>>
    /\ diffExisting = <<>>
    /\ diffOut = <<>>

Procs == 1..NumProcs

ProcIdle(b) ==
    /\ backend = b
    /\ ppc = [p \in Procs |-> "idle"]
    /\ episode = [p \in Procs |-> <<>>]
    /\ tmpdir = [p \in Procs |-> 0]
    /\ result = [p \in Procs |-> <<>>]
    /\ failed = [p \in Procs |-> ""]
    /\ ret = [p \in Procs |-> <<>>]
    /\ calls = [p \in Procs |-> <<>>]
    /\ wrote = [p \in Procs |-> FALSE]
    /\ tmpfs = [d \in 1..NumProcs |-> [exists |-> FALSE]]
    /\ store = <<>>
    /\ returns = {}
    /\ ncalls = 0

HttpIdle ==
    /\ httpReq = [p \in Procs |-> <<>>]
    /\ httpResp = [p \in Procs |-> <<>>]

Init ==
    /\ HttpIdle
    /\ \E src \in Sources, b \in {[exists |-> FALSE], LegacyLedger} : InitRunWith(src, b)
    /\ DiffOff
    /\ ProcIdle("gcs")

Spec == Init /\ [][Next]_vars

----------------------------------------------------------------------------
\* The diff step applied to chosen arguments (specification SpecDiff)

Episode(g) == PodcastEpisode(RawEntry(g))

DiffFeedSet == { [title |-> "F", podcast_episodes |-> es] :
                    es \in SeqsUpTo({ Episode(g) : g \in {"a", "b", "c"} }, MaxDiffLen) }

\* ledgers: none, a record without its episode list, or one feed dict with any episodes
DiffExistingSet ==
    {<<>>, <<[title |-> "F"]>>}
      \cup { <<[title |-> "F", podcast_episodes |-> es]>> :
                es \in { <<>>, <<Episode("a")>>, <<Episode("b")>>, <<Episode("c"), Episode("a")>>,
                         <<Episode("a"), Episode("b")>>, <<Episode("a"), Episode("b"), Episode("c")>> } }

InitDiff ==
    /\ InitRun
    /\ HttpIdle
    /\ ProcIdle("gcs")
    /\ diffPc = "input"
    /\ diffFeeds \in SeqsUpTo(DiffFeedSet, MaxDiffFeeds) \ {<<>>}
    /\ diffExisting \in DiffExistingSet
    /\ diffOut = <<>>

ApplyDiff ==
    /\ diffPc = "input"
    /\ diffOut' = identify_new_episodes(diffFeeds, diffExisting)
    /\ diffPc' = "done"
    /\ UNCHANGED <<runVars, diffFeeds, diffExisting, procVars, httpVars>>

NextDiff == ApplyDiff

SpecDiff == InitDiff /\ [][NextDiff]_vars

----------------------------------------------------------------------------
\* EpisodeProcessor.process and its three stages (specification SpecProc)

\* names tempfile.mkdtemp can return
TmpNames == 1..NumProcs

ProcEpisode(g, v) ==
    [title |-> "T" \o v, description |-> "D", guid |-> g, pub_date |-> "P",
     mp3_url |-> "http://x/" \o v \o ".mp3"]

\* the fields of the dataclass
EpisodeFields == {"title", "description", "guid", "pub_date", "mp3_url"}

ProcEpisodes == { ProcEpisode("a", "1"), ProcEpisode("a", "2"), ProcEpisode("b", "1") }

\* os.path.join(tmpdir, "episode.mp3")
mp3_path(dir) == <<dir, "episode.mp3">>

\* what a download of url writes when it completes, and when it breaks off
Content(url) == [kind |-> "audio", url |-> url]
PartialContent(url) == [kind |-> "partial", url |-> url]

\* the file at path: <<>> when there is none
ReadFile(path) == IF tmpfs[path[1]].exists THEN tmpfs[path[1]].file ELSE <<>>

\* a transcriber returns a result for the file at audio_path
Transcribe(audio_path, file) ==
    [language |-> "sv", language_probability |-> "0.99", duration |-> "120.0",
     full_text |-> <<"transcription of", audio_path, file>>,
     segments |-> <<[start |-> "0.0", end |-> "120.0", text |-> "[fake]"]>>]

\* hashlib.md5(guid.encode()).hexdigest() on the guids of the model
md5_hexdigest(g) ==
    CASE g = "a" -> "0cc175b9c0f1b6a831c399e269772661"
      [] g = "b" -> "92eb5ffee6ae2fec3ad71c777531578f"
      [] g = "c" -> "4a8a08f09d37b73795649038408b5f33"
      [] g = ""  -> "d41d8cd98f00b204e9800998ecf8427e"

\* a LocalStorage that writes every artifact to one file
LocalStorage_path_fixed(e) == "output/transcription.json"

LocalStorage_path(e) == "output/" \o md5_hexdigest(e.guid) \o ".json"

GCSStorage_path(e) == "transcriptions/" \o e.guid \o ".json"

\* a location derived from the title instead of the guid
Location_from_title(b, e) ==
    IF b = "local" THEN "output/" \o e.title \o ".json" ELSE "transcriptions/" \o e.title \o ".json"

Location(b, e) == IF b = "local" THEN LocalStorage_path(e) ELSE GCSStorage_path(e)

\* the dict both upload_transcription methods build
Payload(e, r) ==
    [episode |-> [title |-> e.title, guid |-> e.guid, pub_date |-> e.pub_date, mp3_url |-> e.mp3_url],
     transcription |-> [language |-> r.language, language_probability |-> r.language_probability,
                        duration |-> r.duration, full_text |-> r.full_text, segments |-> r.segments]]

\* a mkdtemp that hands out one fixed name, the least
mkdtemp_fixed == CHOOSE d \in TmpNames : \A f \in TmpNames : d <= f

\* tempfile.mkdtemp returns a name that does not exist yet; the names are opaque, so the
\* model takes the least free one (every worker holds at most one directory, one is free)
mkdtemp == CHOOSE d \in TmpNames : ~tmpfs[d].exists /\ \A f \in TmpNames : ~tmpfs[f].exists => d <= f

InitProc ==
    /\ InitRun
    /\ HttpIdle
    /\ DiffOff
    /\ \E b \in {"local", "gcs"} : ProcIdle(b)

\* process(e) is called by worker p; line 219: the with statement creates the directory
EnterWith(p, e) ==
    /\ ppc[p] \in {"idle", "returned", "raised"}
    /\ ncalls < MaxCalls
    /\ ncalls' = ncalls + 1
    /\ \E d \in TmpNames :
          /\ d = mkdtemp
          /\ episode' = [episode EXCEPT ![p] = e]
          /\ tmpdir' = [tmpdir EXCEPT ![p] = d]
          /\ tmpfs' = [tmpfs EXCEPT ![d] = [exists |-> TRUE, owner |-> p, file |-> <<>>]]
    /\ ppc' = [ppc EXCEPT ![p] = "download"]
    /\ result' = [result EXCEPT ![p] = <<>>]
    /\ failed' = [failed EXCEPT ![p] = ""]
    /\ ret' = [ret EXCEPT ![p] = <<>>]
    /\ calls' = [calls EXCEPT ![p] = <<>>]
    /\ wrote' = [wrote EXCEPT ![p] = FALSE]
    /\ UNCHANGED <<runVars, diffVars, backend, store, returns>>

\* process is called directly (the test suite, a script) with some episode
Enter(p) ==
    /\ \E e \in ProcEpisodes : EnterWith(p, e)
    /\ UNCHANGED httpVars

\* DownloadOk with the transcribe stage left out: straight to the end of the with block
DownloadOk_skips_transcribe(p) ==
    /\ ppc[p] = "download"
    /\ LET dest == mp3_path(tmpdir[p])
           data == Content(episode[p].mp3_url)
       IN  /\ tmpfs' = [tmpfs EXCEPT ![dest[1]].file = <<data>>]
           /\ calls' = [calls EXCEPT ![p] = Append(@, [fn |-> "download", url |-> episode[p].mp3_url,
                                                          path |-> dest, file |-> <<data>>, ok |-> TRUE])]
           /\ result' = [result EXCEPT ![p] = <<Transcribe(dest, <<>>)>>]
    /\ ppc' = [ppc EXCEPT ![p] = "release"]
    /\ UNCHANGED <<httpVars, runVars, diffVars, backend, episode, tmpdir, failed, ret, wrote, store, returns, ncalls>>

\* lines 222-225: downloader.download(episode.mp3_url, mp3_path) returns
DownloadOk(p) ==
    /\ ppc[p] = "download"
    /\ LET dest == mp3_path(tmpdir[p])
           data == Content(episode[p].mp3_url)
       IN  /\ tmpfs' = [tmpfs EXCEPT ![dest[1]].file = <<data>>]
           /\ calls' = [calls EXCEPT ![p] = Append(@, [fn |-> "download", url |-> episode[p].mp3_url,
                                                          path |-> dest, file |-> <<data>>, ok |-> TRUE])]
    /\ ppc' = [ppc EXCEPT ![p] = "transcribe"]
    /\ UNCHANGED <<httpVars, runVars, diffVars, backend, episode, tmpdir, result, failed, ret, wrote, store, returns, ncalls>>

\* download raises: before the file is opened (raise_for_status) or while it is written
DownloadFail(p) ==
    /\ ppc[p] = "download"
    /\ \E partial \in BOOLEAN :
          LET dest == mp3_path(tmpdir[p])
              file == IF partial THEN <<PartialContent(episode[p].mp3_url)>> ELSE <<>>
          IN  /\ tmpfs' = [tmpfs EXCEPT ![dest[1]].file = file]
              /\ calls' = [calls EXCEPT ![p] = Append(@, [fn |-> "download", url |-> episode[p].mp3_url,
                                                             path |-> dest, file |-> file, ok |-> FALSE])]
    /\ failed' = [failed EXCEPT ![p] = "download"]
    /\ ppc' = [ppc EXCEPT ![p] = "release"]
    /\ UNCHANGED <<httpVars, runVars, diffVars, backend, episode, tmpdir, result, ret, wrote, store, returns, ncalls>>

\* lines 227-229: transcriber.transcribe(mp3_path) returns
TranscribeOk(p) ==
    /\ ppc[p] = "transcribe"
    /\ LET path == mp3_path(tmpdir[p])
           file == ReadFile(path)
           r    == Transcribe(path, file)
       IN  /\ result' = [result EXCEPT ![p] = <<r>>]
           /\ calls' = [calls EXCEPT ![p] = Append(@, [fn |-> "transcribe", path |-> path, file |-> file,
                                                          returned |-> <<r>>, ok |-> TRUE])]
    /\ ppc' = [ppc EXCEPT ![p] = "release"]
    /\ UNCHANGED <<httpVars, runVars, diffVars, backend, episode, tmpdir, failed, ret, wrote, tmpfs, store, returns, ncalls>>

\* TranscribeFail with the error swallowed: process goes on to store an empty result
TranscribeFail_swallowed(p) ==
    /\ ppc[p] = "transcribe"
    /\ LET path == mp3_path(tmpdir[p])
       IN  calls' = [calls EXCEPT ![p] = Append(@, [fn |-> "transcribe", path |-> path, file |-> ReadFile(path),
                                                       returned |-> <<>>, ok |-> FALSE])]
    /\ failed' = [failed EXCEPT ![p] = "transcribe"]
    /\ result' = [result EXCEPT ![p] = <<Transcribe(<<>>, <<>>)>>]
    /\ ppc' = [ppc EXCEPT ![p] = "store"]
    /\ UNCHANGED <<httpVars, runVars, diffVars, backend, episode, tmpdir, ret, wrote, tmpfs, store, returns, ncalls>>

\* transcribe raises
TranscribeFail(p) ==
    /\ ppc[p] = "transcribe"
    /\ LET path == mp3_path(tmpdir[p])
       IN  calls' = [calls EXCEPT ![p] = Append(@, [fn |-> "transcribe", path |-> path, file |-> ReadFile(path),
                                                       returned |-> <<>>, ok |-> FALSE])]
    /\ failed' = [failed EXCEPT ![p] = "transcribe"]
    /\ ppc' = [ppc EXCEPT ![p] = "release"]
    /\ UNCHANGED <<httpVars, runVars, diffVars, backend, episode, tmpdir, result, ret, wrote, tmpfs, store, returns, ncalls>>

\* Release that cleans up only when the block ends normally
Release_on_success_only(p) ==
    /\ ppc[p] = "release"
    /\ tmpfs' = IF failed[p] = "" THEN [tmpfs EXCEPT ![tmpdir[p]] = [exists |-> FALSE]] ELSE tmpfs
    /\ ppc' = [ppc EXCEPT ![p] = IF failed[p] = "" THEN "store" ELSE "raised"]
    /\ UNCHANGED <<httpVars, runVars, diffVars, backend, episode, tmpdir, result, failed, ret, calls, wrote, store, returns, ncalls>>

\* the with block of line 219 is left, normally or by an exception: TemporaryDirectory
\* removes the directory; a pending exception then leaves process
Release(p) ==
    /\ ppc[p] = "release"
    /\ tmpfs' = [tmpfs EXCEPT ![tmpdir[p]] = [exists |-> FALSE]]
    /\ ppc' = [ppc EXCEPT ![p] = IF failed[p] = "" THEN "store" ELSE "raised"]
    /\ UNCHANGED <<httpVars, runVars, diffVars, backend, episode, tmpdir, result, failed, ret, calls, wrote, store, returns, ncalls>>

\* lines 231-232: storage.upload_transcription(episode, result) returns, process returns path
StoreOk(p) ==
    /\ ppc[p] = "store"
    /\ LET loc == Location(backend, episode[p])
           new == (loc :> [complete |-> TRUE, data |-> Payload(episode[p], result[p][1])]) @@ store
       IN  /\ store' = new
           /\ ret' = [ret EXCEPT ![p] = <<loc>>]
           /\ calls' = [calls EXCEPT ![p] = Append(@, [fn |-> "store", episode |-> episode[p], result |-> result[p],
                                                          returned |-> <<loc>>, ok |-> TRUE])]
           /\ returns' = returns \cup {[guid |-> episode[p].guid, location |-> loc,
                                        stored |-> new[loc].data.episode.guid]}
    /\ wrote' = [wrote EXCEPT ![p] = TRUE]
    /\ ppc' = [ppc EXCEPT ![p] = "returned"]
    /\ UNCHANGED <<httpVars, runVars, diffVars, backend, episode, tmpdir, result, failed, tmpfs, ncalls>>

\* upload_transcription raises. LocalStorage opens the path for writing (truncating it)
\* before json.dump writes: a failure in between leaves an incomplete file.
\* GCSStorage uploads in one call: the object is replaced or not.
StoreFail(p) ==
    /\ ppc[p] = "store"
    /\ \E midwrite \in BOOLEAN :
          LET loc == Location(backend, episode[p])
              touched == backend = "local" /\ midwrite
          IN  /\ store' = IF touched THEN (loc :> [complete |-> FALSE]) @@ store ELSE store
              /\ wrote' = [wrote EXCEPT ![p] = touched]
              /\ calls' = [calls EXCEPT ![p] = Append(@, [fn |-> "store", episode |-> episode[p], result |-> result[p],
                                                             returned |-> <<>>, ok |-> FALSE])]
    /\ failed' = [failed EXCEPT ![p] = "store"]
    /\ ppc' = [ppc EXCEPT ![p] = "raised"]
    /\ UNCHANGED <<httpVars, runVars, diffVars, backend, episode, tmpdir, result, ret, tmpfs, returns, ncalls>>

NextProc ==
    \E p \in Procs :
        \/ Enter(p)
        \/ DownloadOk(p)
        \/ DownloadFail(p)
        \/ TranscribeOk(p)
        \/ TranscribeFail(p)
        \/ Release(p)
        \/ StoreOk(p)
        \/ StoreFail(p)

SpecProc == InitProc /\ [][NextProc]_vars

----------------------------------------------------------------------------
\* The HTTP endpoint (episode_processor/main.py): POST / handled by process_episode.
\* Flask serves requests concurrently; worker p handles one request at a time.

\* the workers that serve requests
HttpWorkers == { p \in Procs : p <= MaxHttpWorkers }

JsonObject(d) == [json |-> "object", fields |-> d]

\* dict without key k
Without(d, k) == [x \in DOMAIN d \ {k} |-> d[x]]

\* request.get_json(silent=True): None for an absent or unparsable body, else the value
Bodies ==
    { [json |-> "none"],
      JsonObject(<<>>),
      JsonObject(Without(ProcEpisode("a", "1"), "description")),
      JsonObject(ProcEpisode("a", "1") @@ ("extra" :> "x")),
      JsonObject(ProcEpisode("a", "1")),
      JsonObject(ProcEpisode("b", "1") @@ ("trace_id" :> "t1")) }

\* line 49: not episode_data
Falsy(b) == b.json = "none" \/ (b.json = "object" /\ DOMAIN b.fields = {})

\* line 53: episode_data.pop("trace_id", "") leaves the other keys
EpisodeData(b) == Without(b.fields, "trace_id")

\* lines 53-55 raise: pop on a value that is no dict, or a dataclass constructor
\* given a missing or an unexpected keyword
BuildRaises(b) == IF b.json = "object" THEN DOMAIN EpisodeData(b) # EpisodeFields ELSE TRUE

\* line 55: PodcastEpisode(**episode_data)
HttpPodcastEpisode(d) ==
    [title |-> d.title, description |-> d.description, guid |-> d.guid,
     pub_date |-> d.pub_date, mp3_url |-> d.mp3_url]

\* worker p is free to take a request
Accepting(p) == httpReq[p] = <<>> \/ httpResp[p] # <<>>

\* worker p handles a request whose process call is under way or over
Handling(p) == httpReq[p] # <<>> /\ httpResp[p] = <<>>

Answer(p, b, r) ==
    /\ httpReq' = [httpReq EXCEPT ![p] = <<b>>]
    /\ httpResp' = [httpResp EXCEPT ![p] = <<r>>]

\* lines 48-50: no episode data
NoEpisodeData(p) ==
    /\ Accepting(p)
    /\ \E b \in Bodies :
          /\ Falsy(b)
          /\ Answer(p, b, [status |-> 400, body |-> <<"No episode data provided">>])
    /\ UNCHANGED <<runVars, diffVars, procVars>>

\* lines 53-55 raise outside the try statement: Flask answers the unhandled exception
BuildEpisodeRaises(p) ==
    /\ Accepting(p)
    /\ \E b \in Bodies :
          /\ ~Falsy(b)
          /\ BuildRaises(b)
          /\ Answer(p, b, [status |-> 500, body |-> <<"Internal Server Error">>])
    /\ UNCHANGED <<runVars, diffVars, procVars>>

\* processor.process(episode, trace_id=trace_id): the trace_id only labels log lines
process_traced(p, e, trace_id) == EnterWith(p, e)

\* lines 48-63: the episode is built and processor.process is called
CallProcess(p) ==
    /\ Accepting(p)
    /\ \E b \in Bodies :
          /\ ~Falsy(b)
          /\ ~BuildRaises(b)
          /\ process_traced(p, HttpPodcastEpisode(EpisodeData(b)), Get(b.fields, "trace_id", ""))
          /\ httpReq' = [httpReq EXCEPT ![p] = <<b>>]
          /\ httpResp' = [httpResp EXCEPT ![p] = <<>>]

\* line 64: process returned path (" -> " stands for the arrow of the message)
Respond200(p) ==
    /\ Handling(p)
    /\ ppc[p] = "returned"
    /\ httpResp' = [httpResp EXCEPT ![p] =
                      <<[status |-> 200, body |-> <<"Processed: ", episode[p].title, " -> ", ret[p][1]>>]>>]
    /\ UNCHANGED <<runVars, diffVars, procVars, httpReq>>

\* Respond500 that reports success
Respond500_as_200(p) ==
    /\ Handling(p)
    /\ ppc[p] = "raised"
    /\ httpResp' = [httpResp EXCEPT ![p] = <<[status |-> 200, body |-> <<"Error: ", failed[p]>>]>>]
    /\ UNCHANGED <<runVars, diffVars, procVars, httpReq>>

\* lines 65-72: process raised e; the message names the stage that failed
Respond500(p) ==
    /\ Handling(p)
    /\ ppc[p] = "raised"
    /\ httpResp' = [httpResp EXCEPT ![p] = <<[status |-> 500, body |-> <<"Error: ", failed[p]>>]>>]
    /\ UNCHANGED <<runVars, diffVars, procVars, httpReq>>

InitHttp ==
    /\ InitRun
    /\ DiffOff
    /\ HttpIdle
    /\ \E b \in {"local", "gcs"} : ProcIdle(b)

NextHttp ==
    \E p \in HttpWorkers :
        \/ NoEpisodeData(p)
        \/ BuildEpisodeRaises(p)
        \/ CallProcess(p)
        \/ DownloadOk(p)
        \/ DownloadFail(p)
        \/ TranscribeOk(p)
        \/ TranscribeFail(p)
        \/ Release(p)
        \/ StoreOk(p)
        \/ StoreFail(p)
        \/ Respond200(p)
        \/ Respond500(p)

SpecHttp == InitHttp /\ [][NextHttp]_vars

----------------------------------------------------------------------------
\* Claims about the discovery run (specification Spec)

SeenAtLoad == get_existing_episode_guids(existing_feeds)

\* C2: across runs whose ledger saves succeed, no episode guid is dispatched
\* (a Cloud Task created for it) more than once.
C2_NoGuidDispatchedTwice ==
    ~saveFailed => \A g \in BagToSet(tasks) : CopiesIn(g, tasks) <= 1

\* C3: after every successful run the persisted seen set equals the seen set
\* loaded at the start of the run united with the guids of every parsed entry.
C3_PersistedIsUnion ==
    pc = "done" => PersistedSeen = SeenAtLoad \cup FeedGuids(feeds)

\* C8: a dispatch failure does not prevent the attempts for the remaining new
\* episodes: the attempts made so far are exactly the first idx-1 new episodes,
\* one attempt each and in order; once the loop is left every new episode has
\* been attempted; each failure is reported; and no run raises at a dispatch.
C8_DispatchFailureIsolated ==
    /\ raisedAt # "dispatch"
    /\ pc \in {"dispatch", "upload", "done"} \/ (pc = "raised" /\ raisedAt = "upload") =>
         /\ Len(attempts) = idx - 1
         /\ \A i \in 1..Len(attempts) : attempts[i].episode = new_episodes[i]
         /\ errors = [i \in 1..Len(errors) |->
                        SelectSeq(attempts, LAMBDA a : ~a.ok)[i].episode.title]
         /\ Len(errors) = Len(SelectSeq(attempts, LAMBDA a : ~a.ok))
    /\ pc \in {"upload", "done"} \/ (pc = "raised" /\ raisedAt = "upload") =>
         Len(attempts) = Len(new_episodes)

C8_Witness ==
    /\ pc = "done"
    /\ Len(new_episodes) >= 2
    /\ ~attempts[1].ok
    /\ attempts[2].ok
    /\ Len(errors) = 1

\* C9: when the ledger save fails the run does not report success and the
\* persisted ledger is as it was before the run; a next run over the same
\* feeds finds the same new episodes again.
C9_FailedSaveKeepsLedger ==
    /\ (pc = "raised" /\ raisedAt = "upload") => (response # 200 /\ blob = blobAtStart)
    /\ (prev.retry /\ pc \in {"dispatch", "upload", "done"}) => new_episodes = prev.new

C9_Witness ==
    /\ prev.retry
    /\ pc = "dispatch"
    /\ blob = blobAtStart
    /\ Len(new_episodes) >= 2

\* C10: when loading the ledger fails the run aborts: nothing is dispatched,
\* the ledger is not written and the persisted seen set is unchanged.
C10_LoadFailureAborts ==
    raisedAt = "load" =>
        /\ pc = "raised"
        /\ response = 500
        /\ attempts = <<>>
        /\ new_episodes = <<>>
        /\ blob = blobAtStart

C10_Witness ==
    /\ raisedAt = "load"
    /\ blob.exists
    /\ \E i \in DOMAIN feeds[1].podcast_episodes : feeds[1].podcast_episodes[i].guid \notin PersistedSeen

\* every entry of the parsed feeds, in feed order
FeedEntries == Flatten([k \in DOMAIN feeds |-> feeds[k].podcast_episodes])

\* a ledger that holds no seen guid: no object, or no record with an episode list
ColdLedger(b) == ~b.exists \/ \A k \in DOMAIN b.data : "podcast_episodes" \notin DOMAIN b.data[k]

\* C11: cold start is valid: when no ledger exists, or a ledger record lacks
\* its episode list, the load can return (it is no error), it yields the empty
\* seen set, and the run treats every entry of the parsed feed as new.
C11_ColdStartValid ==
    /\ (pc = "load" /\ ColdLedger(blob)) => ENABLED LoadOk
    /\ (pc \in {"dispatch", "upload", "done"} /\ ColdLedger(blobAtStart)) =>
          /\ raisedAt = ""
          /\ SeenAtLoad = {}
          /\ new_episodes = FeedEntries

C11_Witness ==
    /\ pc = "dispatch"
    /\ blobAtStart = LegacyLedger
    /\ Len(new_episodes) = 2

C11_WitnessNoLedger ==
    /\ pc = "dispatch"
    /\ ~blobAtStart.exists
    /\ Len(new_episodes) = 2

\* C12: a feed entry with no audio URL does not make the run fail, is
\* recorded as seen by the run, and is never dispatched.
C12_NoAudioSeenNotDispatched ==
    /\ raisedAt # "parse"
    /\ \A i \in DOMAIN attempts : attempts[i].episode.mp3_url # ""
    /\ pc = "done" => \A i \in DOMAIN FeedEntries :
                          FeedEntries[i].mp3_url = "" => FeedEntries[i].guid \in PersistedSeen

\* the identity of an entry by the fallback rule: the guid, else (the link is
\* not kept in a PodcastEpisode) the title
FallbackKey(e) == IF e.guid # "" THEN e.guid ELSE e.title

\* the episode dicts of a loaded ledger
LedgerEpisodes(existing) ==
    UNION { IF "podcast_episodes" \in DOMAIN existing[k] THEN Range(existing[k].podcast_episodes) ELSE {}
          : k \in DOMAIN existing }

\* C13: entries with a blank guid are identified by their fallback key: a
\* blank-guid entry whose key the ledger does not hold is new, whatever other
\* blank-guid entries the ledger holds or the feed carries.
C13_BlankGuidsDistinct ==
    pc \in {"dispatch", "upload", "done"} =>
        \A i \in DOMAIN FeedEntries :
            (/\ FeedEntries[i].guid = ""
             /\ FallbackKey(FeedEntries[i]) \notin { FallbackKey(x) : x \in LedgerEpisodes(existing_feeds) })
            => \E j \in DOMAIN new_episodes : new_episodes[j] = FeedEntries[i]

\* C20: an episode is recorded in the persisted ledger only if it was enqueued
\* (or has no audio URL): after a successful run, no episode whose dispatch
\* failed in that run is in the persisted seen set.
C20_FailedDispatchNotSeen ==
    pc = "done" =>
        \A i \in DOMAIN attempts :
            (~attempts[i].ok /\ attempts[i].episode.mp3_url # "") =>
                attempts[i].episode.guid \notin PersistedSeen

\* a step of the run writes the ledger only when it leaves the upload, every new
\* episode having had its dispatch attempt, one each and in order
WritesOnlyAfterAttempts ==
    blob' # blob =>
        /\ pc = "upload"
        /\ pc' = "done"
        /\ Len(attempts) = Len(new_episodes)
        /\ \A i \in DOMAIN new_episodes : attempts[i].episode = new_episodes[i]

\* C21: within a discovery run the ledger is written at most once, and only
\* after a dispatch attempt has been made for every new episode of the run: it
\* changes only in the step that ends the run, and then holds what that one
\* write stored; while the run is under way, and when it stopped before that
\* point (feed fetch, ledger load, failed save), the ledger is as the run found it.
C21_LedgerWrittenOnceAtEnd ==
    /\ [](pc \in {"load", "dispatch", "upload", "raised"} => blob = blobAtStart)
    /\ [](pc = "done" => blob = [exists |-> TRUE, data |-> feeds_data(feeds)])
    /\ [][WritesOnlyAfterAttempts]_vars

C21_Witness ==
    /\ pc = "done"
    /\ blob # blobAtStart
    /\ blobAtStart.exists
    /\ Len(new_episodes) >= 1
    /\ \E i \in DOMAIN attempts : ~attempts[i].ok

C21_WitnessStopped ==
    /\ pc = "raised"
    /\ raisedAt = "parse"
    /\ blob.exists
    /\ "podcast_episodes" \in DOMAIN blob.data[1]
    /\ blob = blobAtStart

----------------------------------------------------------------------------
\* Claims about the diff step (specification SpecDiff)

DiffAll == Flatten([k \in DOMAIN diffFeeds |-> diffFeeds[k].podcast_episodes])

DiffSeen == get_existing_episode_guids(diffExisting)

\* positions of the feed entries whose guid is not in the seen set
DiffKeep == { i \in 1..Len(DiffAll) : DiffAll[i].guid \notin DiffSeen }

\* the j-th smallest position of DiffKeep
DiffNth(j) == CHOOSE i \in DiffKeep : Cardinality({ k \in DiffKeep : k <= i }) = j

\* C4: identify_new_episodes returns exactly the entries whose guid is not in
\* the seen set, in feed order, and no entry whose guid is in the seen set.
C4_DiffExactInOrder ==
    diffPc = "done" =>
        /\ Len(diffOut) = Cardinality(DiffKeep)
        /\ \A j \in 1..Len(diffOut) : diffOut[j] = DiffAll[DiffNth(j)]
        /\ \A j \in 1..Len(diffOut) : diffOut[j].guid \notin DiffSeen

C4_Witness ==
    /\ diffPc = "done"
    /\ DiffSeen = {"a"}
    /\ [i \in 1..Len(DiffAll) |-> DiffAll[i].guid] = <<"c", "a", "b">>
    /\ [j \in 1..Len(diffOut) |-> diffOut[j].guid] = <<"c", "b">>

----------------------------------------------------------------------------
\* Claims about EpisodeProcessor.process (specification SpecProc)

\* the stage functions worker p has called in its current invocation
Called(p) == { calls[p][i].fn : i \in DOMAIN calls[p] }

\* C1: a failing stage stops the pipeline for that episode: after a download
\* failure neither transcribe nor store is called, after a transcribe failure
\* store is not called and nothing is written to the destination; process
\* then raises that stage's error and returns no location.
C1_FailingStageStopsPipeline ==
    \A p \in Procs :
        /\ failed[p] = "download" => Called(p) = {"download"}
        /\ failed[p] = "transcribe" => Called(p) = {"download", "transcribe"}
        /\ failed[p] \in {"download", "transcribe"} =>
              /\ ~wrote[p]
              /\ ret[p] = <<>>
              /\ ppc[p] \in {"release", "raised"}
        /\ ppc[p] = "raised" => (failed[p] # "" /\ ret[p] = <<>>)
        /\ ppc[p] = "returned" => failed[p] = ""

C1_Witness ==
    \E p, q \in Procs :
        /\ ppc[p] = "raised" /\ failed[p] = "download"
        /\ ppc[q] = "raised" /\ failed[q] = "transcribe"
        /\ calls[q][1].ok

\* C5: on the success path the three stages are called once each, in the
\* order download, transcribe, store; transcribe reads the file the download
\* wrote, store gets this episode and the result transcribe returned, and
\* process returns the location store returned.
C5_SuccessPathOrder ==
    \A p \in Procs :
        ppc[p] = "returned" =>
            /\ Len(calls[p]) = 3
            /\ [i \in 1..3 |-> calls[p][i].fn] = <<"download", "transcribe", "store">>
            /\ \A i \in 1..3 : calls[p][i].ok
            /\ calls[p][1].url = episode[p].mp3_url
            /\ calls[p][1].file = <<Content(episode[p].mp3_url)>>
            /\ calls[p][2].path = calls[p][1].path
            /\ calls[p][2].file = calls[p][1].file
            /\ calls[p][3].episode = episode[p]
            /\ calls[p][3].result = calls[p][2].returned
            /\ calls[p][3].result # <<>>
            /\ ret[p] = calls[p][3].returned
            /\ ret[p] # <<>>

C5_Witness ==
    \E p, q \in Procs :
        /\ p # q
        /\ ppc[p] = "returned"
        /\ ppc[q] = "returned"
        /\ episode[p].mp3_url # episode[q].mp3_url

\* the temporary directories that worker p's invocation created and that still exist
Scratch(p) == { d \in TmpNames : tmpfs[d].exists /\ tmpfs[d].owner = p }

\* C6: once process has returned or raised, on every exit path, the temporary
\* directory it acquired (and the audio file in it) no longer exists.
C6_ScratchReleased ==
    \A p \in Procs : ppc[p] \in {"store", "returned", "raised"} => Scratch(p) = {}

C6_Witness ==
    \E p, q \in Procs :
        /\ ppc[p] = "raised" /\ failed[p] = "transcribe" /\ calls[p][1].file # <<>>
        /\ ppc[q] = "raised" /\ failed[q] = "store"

C6_WitnessDownload ==
    \E p, q \in Procs :
        /\ ppc[p] = "raised" /\ failed[p] = "download" /\ calls[p][1].file # <<>>
        /\ ppc[q] = "returned"

\* C7: storage is idempotent per guid: successful calls for one guid return
\* the same location whatever the other episode fields are, the destination
\* holds at most one artifact per guid, and the payload at the returned
\* location has episode.guid equal to the guid after each call.
C7_IdempotentStorage ==
    /\ \A r1, r2 \in returns : r1.guid = r2.guid => r1.location = r2.location
    /\ \A r \in returns : r.stored = r.guid
    /\ \A g \in { e.guid : e \in ProcEpisodes } :
          Cardinality({ loc \in DOMAIN store :
                          store[loc].complete /\ store[loc].data.episode.guid = g }) <= 1

C7_Witness ==
    \E p, q \in Procs :
        /\ ppc[p] = "returned"
        /\ ppc[q] = "returned"
        /\ episode[p].guid = episode[q].guid
        /\ episode[p].title # episode[q].title
        /\ ret[p] = ret[q]
        /\ Cardinality(DOMAIN store) = 1
        /\ Cardinality(returns) = 1

\* C16: a store that fails part-way leaves no partial artifact: every
\* artifact at the destination is complete.
C16_NoPartialArtifact ==
    \A loc \in DOMAIN store : store[loc].complete

\* the fields the payload's transcription sub-object is to carry
TranscriptionFields == {"language", "language_probability", "duration", "full_text", "segments"}

\* C17: the stored payload has an episode sub-object with all five episode
\* fields and a transcription sub-object with the five transcription fields.
C17_PayloadCarriesAllFields ==
    \A loc \in DOMAIN store :
        store[loc].complete =>
            /\ DOMAIN store[loc].data.episode = EpisodeFields
            /\ DOMAIN store[loc].data.transcription = TranscriptionFields

\* C18: episodes with different guids are stored at different locations, and
\* the artifact at a guid's location is never one written for another guid.
C18_DistinctGuidsDistinctLocations ==
    /\ \A r1, r2 \in returns : r1.guid # r2.guid => r1.location # r2.location
    /\ \A loc \in DOMAIN store :
          store[loc].complete => Location(backend, store[loc].data.episode) = loc
    /\ \A p \in Procs :
          (ppc[p] = "returned" /\ store[ret[p][1]].complete) =>
              store[ret[p][1]].data.episode.guid = episode[p].guid

C18_Witness ==
    \E p, q \in Procs :
        /\ ppc[p] = "returned"
        /\ ppc[q] = "returned"
        /\ episode[p].guid # episode[q].guid
        /\ episode[p].title = episode[q].title
        /\ ret[p] # ret[q]
        /\ Cardinality(DOMAIN store) = 2

\* worker p is inside the with block of process
Active(p) == ppc[p] \in {"download", "transcribe", "release"}

\* C19: concurrent invocations of process do not interfere: the invocations
\* in flight hold different temporary directories, each its own; the file an
\* invocation transcribes is the one it downloaded, its result is computed
\* from that file, and the location it returns holds an artifact of its guid.
C19_ConcurrentIsolation ==
    /\ \A p, q \in Procs : (p # q /\ Active(p) /\ Active(q)) => tmpdir[p] # tmpdir[q]
    /\ \A p \in Procs : Active(p) => tmpfs[tmpdir[p]].exists /\ tmpfs[tmpdir[p]].owner = p
    /\ \A p \in Procs : ppc[p] = "transcribe" =>
          ReadFile(mp3_path(tmpdir[p])) = <<Content(episode[p].mp3_url)>>
    /\ \A p \in Procs : result[p] # <<>> =>
          result[p][1] = Transcribe(mp3_path(tmpdir[p]), <<Content(episode[p].mp3_url)>>)
    /\ \A p \in Procs : ppc[p] = "returned" =>
          /\ ret[p] = <<Location(backend, episode[p])>>
          /\ store[ret[p][1]].complete => store[ret[p][1]].data.episode.guid = episode[p].guid

C19_Witness ==
    \E p, q \in Procs :
        /\ p # q
        /\ ppc[p] = "transcribe"
        /\ ppc[q] = "transcribe"
        /\ episode[p].guid # episode[q].guid

----------------------------------------------------------------------------
\* Claims about the HTTP endpoint (specification SpecHttp)

\* a body that carries a well-formed episode: a JSON object with exactly the
\* five episode fields, and possibly a trace_id
WellFormed(b) == ~Falsy(b) /\ ~BuildRaises(b)

\* every stage call of worker p's invocation, all three, succeeded
AllStagesOk(p) == Len(calls[p]) = Cardinality({"download", "transcribe", "store"})
                  /\ \A i \in DOMAIN calls[p] : calls[p][i].ok

C14_WitnessError ==
    \E p \in Procs :
        /\ httpReq[p] # <<>>
        /\ WellFormed(httpReq[p][1])
        /\ httpResp[p] # <<>>
        /\ httpResp[p][1].status = 500
        /\ failed[p] = "store"

\* C15: a request whose body is absent or malformed, a JSON object lacking
\* episode fields or carrying unknown ones included, is answered 400.
C15_MalformedGets400 ==
    \A p \in Procs :
        (httpReq[p] # <<>> /\ ~WellFormed(httpReq[p][1])) =>
            /\ httpResp[p] # <<>>
            /\ httpResp[p][1].status = 400

====
